---- MODULE Spec2Model ----
(***************************************************************************)
(* Cloud masking, vegetation index and temporal aggregation of the land    *)
(* productivity notebooks (HLS with EVI, HLS with EVI2, Landsat with EVI2).*)
(*                                                                         *)
(* Floating point values are modelled as exact rationals in lowest terms,  *)
(* extended with the IEEE-754 specials nan, +inf and -inf.  A value is a   *)
(* record [k |-> "nan"], [k |-> "pinf"], [k |-> "ninf"] or                 *)
(* [k |-> "num", n |-> numerator, d |-> denominator > 0].                  *)
(***************************************************************************)
EXTENDS Integers, Sequences, FiniteSets, TLC

VARIABLES
    pc,             \* the cell that runs next
    \* ---- quality mask expression on one quality code
    qcode,          \* integer quality code of one pixel/time
    qbitmask,       \* reject bitmask used in (code & bitmask) != 0
    qnodata,        \* no-data sentinel of the quality band
    qmask,          \* the boolean the mask expression yields
    \* ---- index calculation on one pixel/time
    variant,        \* which notebook's calculate_evi / calculate_evi2
    bands,          \* [nir, red, blue]: band values handed to the calculation
    scaled,         \* [nir, red, blue]: the bands after scale_offset
    evi,            \* the value the calculation returns
    \* ---- the notebook pipeline on one pixel's time series
    catalog,        \* the scenes the STAC catalogue holds, in time order
    year,           \* the year the query loop of Part 3 is at
    items,          \* the scenes found by the search(es) so far
    data,           \* the loaded dataset
    masked,         \* the dataset returned by the masking function
    resampled,      \* resample(time=rule).max() / .median()
    selected,       \* the quarters kept by .sel(time.dt.month == anchor)
    \* ---- the spatial mean of one period
    raster,         \* one period of the aggregate: pixel -> value
    summary,        \* raster.mean(["x", "y"])
    \* ---- the pipeline on a raster stack, computed chunk by chunk
    api,            \* "xarray" (functions on datasets) or "eo_insights" (RasterBase)
    tlen,           \* scenes per time chunk
    xlen,           \* pixel columns per spatial tile
    cloudy,         \* <<pixel, scene>> of the one cloudy cell of the stack, or <<>>
    stack,          \* the object data / hls_raster.data: pixel -> dataset
    smasked,        \* the object masked / data_masked: pixel -> dataset
    sagg,           \* masked.resample(time="1MS").max(): pixel -> groups
    parts,          \* per tile, the processed chunks in the order they finished
    final,          \* group -> (pixel -> reduced index), for the groups reduced
    report,         \* group -> mean over x and y
    \* ---- the year loop of the eo-insights notebook
    hls_trend_raster,   \* the RasterBase that collects the years: data and masks
    hls_year_raster     \* the RasterBase of the year the loop is at

maskVars  == <<qcode, qbitmask, qnodata, qmask>>
indexVars == <<bands, scaled, evi>>
pipeVars  == <<catalog, year, items, data, masked, resampled, selected>>
areaVars  == <<raster, summary>>
stackVars == <<api, tlen, xlen, cloudy, stack, smasked, sagg, parts, final, report>>
loopVars  == <<hls_trend_raster, hls_year_raster>>
vars      == <<pc, variant, maskVars, indexVars, pipeVars, areaVars, stackVars,
               loopVars>>

(***************************************************************************)
(* Values                                                                  *)
(***************************************************************************)
Abs(i) == IF i < 0 THEN -i ELSE i

RECURSIVE GCD(_, _)
GCD(a, b) == IF b = 0 THEN Abs(a) ELSE GCD(b, a % b)

NaN  == [k |-> "nan"]
PInf == [k |-> "pinf"]
NInf == [k |-> "ninf"]

\* the rational n/d (d # 0) in lowest terms with a positive denominator
Num(n, d) ==
    LET g == GCD(Abs(n), Abs(d))
        s == IF d < 0 THEN -1 ELSE 1
    IN  [k |-> "num", n |-> (s * n) \div g, d |-> (s * d) \div g]

IntVal(i) == Num(i, 1)

IsNaN(v) == v.k = "nan"
IsNum(v) == v.k = "num"

\* IEEE addition of two values that are nan or finite
Add(a, b) ==
    IF IsNaN(a) \/ IsNaN(b) THEN NaN
    ELSE LET g == GCD(a.d, b.d)
         IN  Num(a.n * (b.d \div g) + b.n * (a.d \div g), a.d * (b.d \div g))

Neg(a) == IF IsNaN(a) THEN NaN ELSE [k |-> "num", n |-> -a.n, d |-> a.d]

Sub(a, b) == Add(a, Neg(b))

\* IEEE multiplication of two values that are nan or finite
Mul(a, b) ==
    IF IsNaN(a) \/ IsNaN(b) THEN NaN
    ELSE LET g1 == GCD(Abs(a.n), b.d)
             g2 == GCD(Abs(b.n), a.d)
         IN  Num((a.n \div g1) * (b.n \div g2), (a.d \div g2) * (b.d \div g1))

\* IEEE division of two values that are nan or finite: x/0 is +inf or -inf
\* by the sign of x, and 0/0 is nan (numpy warns, it does not raise)
Div(a, b) ==
    IF IsNaN(a) \/ IsNaN(b) THEN NaN
    ELSE IF b.n = 0
         THEN IF a.n > 0 THEN PInf ELSE IF a.n < 0 THEN NInf ELSE NaN
         ELSE LET g1 == GCD(Abs(a.n), Abs(b.n))
                  g2 == GCD(a.d, b.d)
              IN  Num((a.n \div g1) * (b.d \div g2), (a.d \div g2) * (b.n \div g1))

\* a scalar times a value that may also be infinite
Scale(c, v) ==
    IF v.k = "pinf" THEN (IF c.n > 0 THEN PInf ELSE IF c.n < 0 THEN NInf ELSE NaN)
    ELSE IF v.k = "ninf" THEN (IF c.n > 0 THEN NInf ELSE IF c.n < 0 THEN PInf ELSE NaN)
    ELSE Mul(c, v)

\* a < b on values; every comparison with nan is false
Less(a, b) ==
    IF IsNaN(a) \/ IsNaN(b) THEN FALSE
    ELSE IF a.k = "pinf" \/ b.k = "ninf" THEN FALSE
    ELSE IF a.k = "ninf" \/ b.k = "pinf" THEN TRUE
    ELSE LET g == GCD(a.d, b.d)
         IN  a.n * (b.d \div g) < b.n * (a.d \div g)

Greater(a, b) == Less(b, a)
LessEq(a, b)  == ~IsNaN(a) /\ ~IsNaN(b) /\ ~Less(b, a)

(***************************************************************************)
(* Quality mask                                                            *)
(***************************************************************************)
\* bitwise and of two non-negative integers
RECURSIVE BitAnd(_, _)
BitAnd(a, b) ==
    IF a = 0 \/ b = 0 THEN 0
    ELSE (a % 2) * (b % 2) + 2 * BitAnd(a \div 2, b \div 2)

pq_bin   == 14      \* 0b00001110: cloud, adjacent cloud, cloud shadow
bitflags == 24      \* 0b00011000: high confidence cloud, high confidence shadow

\* a reject test that demands every flag of the pattern instead of any
pq_mask_all_flags(fmask, bin) == BitAnd(fmask, bin) = bin

\* pq_mask = (data.fmask & pq_bin) != 0
pq_mask(fmask, bin) == BitAnd(fmask, bin) # 0

\* nodata_mask = data.fmask == data.fmask.odc.nodata
nodata_mask(fmask, nd) == fmask = nd

\* mask = pq_mask | nodata_mask, with the bit pattern as a parameter
quality_mask(fmask, bin, nd) == pq_mask(fmask, bin) \/ nodata_mask(fmask, nd)

\* a mask that wants both flags set: (qa_pixel & bitflags) == bitflags
cloud_mask_both_flags(qa_pixel) == BitAnd(qa_pixel, bitflags) = bitflags

\* cloud_mask = (data.qa_pixel & bitflags) != 0
cloud_mask(qa_pixel) == BitAnd(qa_pixel, bitflags) # 0

(***************************************************************************)
(* Scaling and index                                                       *)
(***************************************************************************)
hls_scale      == Num(1, 10000)        \* 0.0001
landsat_scale  == Num(11, 400000)      \* 0.0000275
landsat_offset == Num(-1, 5)           \* -0.2

Zero == IntVal(0)
One  == IntVal(1)

\* a scaling that keeps zero: band >= 0 in place of band > 0
scale_offset_hls_keep_zero(band) ==
    LET b == Mul(band, hls_scale)
    IN  IF LessEq(Zero, b) THEN b ELSE NaN

\* HLS: band * 0.0001, kept where band > 0, else nan
scale_offset_hls(band) ==
    LET b == Mul(band, hls_scale)
    IN  IF Greater(b, Zero) THEN b ELSE NaN

\* the band left as it is, without the clip
no_clip(b) == b

\* band.clip(0, 1); nan stays nan
Clip01(b) ==
    IF IsNaN(b) THEN NaN
    ELSE IF Less(b, Zero) THEN Zero
    ELSE IF Greater(b, One) THEN One
    ELSE b

\* Landsat: nodata = band == 0; band * 0.0000275 + -0.2; clip(0, 1);
\* where(~nodata, nan)
scale_offset_landsat(band) ==
    LET nodata == (band = Zero)
        b      == Clip01(Add(Mul(band, landsat_scale), landsat_offset))
    IN  IF ~nodata THEN b ELSE NaN

\* the denominator of a normalised difference: nir + red, without the 1
ndvi_denominator(nir, red) == Add(nir, red)

\* nir + red + 1
evi2_denominator(nir, red) == Add(Add(nir, red), One)

\* the two-band ratio with the gain 2.5 of the three-band index
evi2_formula_gain_of_evi(nir, red) ==
    Scale(Num(5, 2), Div(Sub(nir, red), evi2_denominator(nir, red)))

\* evi2 = 2.4 * ((nir - red) / (nir + red + 1))
evi2_formula(nir, red) ==
    Scale(Num(12, 5), Div(Sub(nir, red), evi2_denominator(nir, red)))

\* nir + 6*red - 7.5*blue + 1
evi_denominator(nir, red, blue) ==
    Add(Sub(Add(nir, Mul(IntVal(6), red)), Mul(Num(15, 2), blue)), One)

\* evi = 2.5 * ((nir - red) / (nir + 6*red - 7.5*blue + 1))
evi_formula(nir, red, blue) ==
    Scale(Num(5, 2), Div(Sub(nir, red), evi_denominator(nir, red, blue)))

\* calculate_evi2 of the HLS notebook
calculate_evi2_hls(px) ==
    evi2_formula(scale_offset_hls(px.nir), scale_offset_hls(px.red))

\* calculate_evi of the HLS notebook
calculate_evi_hls(px) ==
    evi_formula(scale_offset_hls(px.nir), scale_offset_hls(px.red),
                scale_offset_hls(px.blue))

\* Landsat: evi2 = 2.4 * (nir - red) / (nir + red + 1)
evi2_formula_landsat(nir, red) ==
    Div(Mul(Num(12, 5), Sub(nir, red)), evi2_denominator(nir, red))

\* calculate_evi2 of the Landsat notebook
calculate_evi2_landsat(px) ==
    evi2_formula_landsat(scale_offset_landsat(px.nir), scale_offset_landsat(px.red))

Variants == {"hls_evi2", "hls_evi", "landsat_evi2"}

calculate_index(v, px) ==
    IF v = "hls_evi2" THEN calculate_evi2_hls(px)
    ELSE IF v = "hls_evi" THEN calculate_evi_hls(px)
    ELSE calculate_evi2_landsat(px)

\* the scaled band the calculation of variant v sees
scaled_band(v, band) ==
    IF v = "landsat_evi2" THEN scale_offset_landsat(band) ELSE scale_offset_hls(band)

(***************************************************************************)
(* Datasets: one pixel's time series.  A scene is a record with the field  *)
(* time ([y, m, d]) and one field per variable; nir stands for nir / nir08 *)
(* and qa for fmask / qa_pixel.                                            *)
(***************************************************************************)
BandNames == {"red", "green", "blue", "nir", "qa"}

EmptyDataset == [dtype |-> "int", scenes |-> <<>>]

\* a where() with the condition inverted: it blanks the pixels to keep
where_inverted(mask, s) ==
    [time |-> s.time] @@ [b \in BandNames |-> IF mask THEN s[b] ELSE NaN]

\* data.where(~mask, other=np.nan) on one scene: every variable becomes nan
\* where the mask is True
where_not(mask, s) ==
    [time |-> s.time] @@ [b \in BandNames |-> IF mask THEN NaN ELSE s[b]]

\* a masking that drops the rejected scenes: data.where(~mask, drop=True)
apply_quality_mask_drop(ds, nd) ==
    [dtype  |-> "float",
     scenes |-> SelectSeq(ds.scenes,
                          LAMBDA sc : ~quality_mask(sc.qa.n, pq_bin, nd))]

\* a masking whose drop_vars takes effect: masked = masked.drop_vars(["fmask"])
apply_quality_mask_without_fmask(ds, nd) ==
    [dtype  |-> "float",
     scenes |-> [i \in DOMAIN ds.scenes |->
                    LET sc == where_not(quality_mask(ds.scenes[i].qa.n, pq_bin, nd),
                                        ds.scenes[i])
                    IN  [f \in DOMAIN sc \ {"qa"} |-> sc[f]]]]

\* apply_quality_mask(data); the result of masked.drop_vars(["fmask"]) is
\* discarded, so the returned dataset keeps fmask
apply_quality_mask(ds, nd) ==
    [dtype  |-> "float",
     scenes |-> [i \in DOMAIN ds.scenes |->
                    where_not(quality_mask(ds.scenes[i].qa.n, pq_bin, nd),
                              ds.scenes[i])]]

\* mask_landsat_clouds(data)
mask_landsat_clouds(ds) ==
    [dtype  |-> "float",
     scenes |-> [i \in DOMAIN ds.scenes |->
                    where_not(cloud_mask(ds.scenes[i].qa.n), ds.scenes[i])]]

\* data.fmask & pq_bin / data.qa_pixel & bitflags: numpy's bitwise_and takes
\* integer arrays and raises TypeError on the float arrays where() returns
bitwise_and_raises(ds) == ds.dtype # "int"

\* the masking function of the notebook of variant v
apply_mask(v, ds, nd) ==
    IF v = "landsat_evi2" THEN mask_landsat_clouds(ds) ELSE apply_quality_mask(ds, nd)

\* masked["evi"] = calculate_evi(masked)
with_index(v, ds) ==
    [dtype  |-> ds.dtype,
     scenes |-> [i \in DOMAIN ds.scenes |->
                    ds.scenes[i] @@ [evi |-> calculate_index(v, ds.scenes[i])]]]

(***************************************************************************)
(* Time: dates, search windows, resampling bins                            *)
(***************************************************************************)
Date(y, m, d) == [y |-> y, m |-> m, d |-> d]

DateLess(a, b) ==
    \/ a.y < b.y
    \/ a.y = b.y /\ a.m < b.m
    \/ a.y = b.y /\ a.m = b.m /\ a.d < b.d

DateLE(a, b) == a = b \/ DateLess(a, b)

\* datetime="start/end": both days are inside the interval
InWindow(t, w) == DateLE(w.start, t) /\ DateLE(t, w.end)

\* the month count of a date, and the date of the first day of a month count
MonthIndex(t) == t.y * 12 + (t.m - 1)
MonthStart(mi) == Date(mi \div 12, (mi % 12) + 1, 1)

\* groups of a whole year from the anchor month on in place of quarters
year_step(rule) == IF rule = "1MS" THEN 1 ELSE 12

\* quarters anchored at the calendar year whatever the rule says
calendar_anchor(rule) == 1

\* the months a group of the rule spans, and the month the quarters are
\* anchored at: "1MS" month start, "QS-DEC" / "QS-FEB" quarter start
RuleStep(rule)   == IF rule = "1MS" THEN 1 ELSE 3
RuleAnchor(rule) == IF rule = "QS-DEC" THEN 12 ELSE IF rule = "QS-FEB" THEN 2 ELSE 1

\* the month count of the start of the group that holds date t
BinOf(rule, t) ==
    MonthIndex(t) - ((t.m - RuleAnchor(rule) + 12) % RuleStep(rule))

(***************************************************************************)
(* Reductions that skip nan                                                *)
(***************************************************************************)
\* the entries of a sequence that are not nan, in order
RECURSIVE Valid(_)
Valid(vs) ==
    IF vs = <<>> THEN <<>>
    ELSE IF IsNaN(Head(vs)) THEN Valid(Tail(vs))
    ELSE <<Head(vs)>> \o Valid(Tail(vs))

\* the last entry in time order, whatever its size
last_of(vs) == vs[Len(vs)]

RECURSIVE MaxOf(_)
MaxOf(vs) ==
    IF Len(vs) = 1 THEN vs[1]
    ELSE LET m == MaxOf(Tail(vs))
         IN  IF Less(m, vs[1]) THEN vs[1] ELSE m

\* a reduction that does not skip nan: one nan entry makes the result nan
propagating_max(vs) ==
    IF vs = <<>> \/ \E i \in DOMAIN vs : IsNaN(vs[i]) THEN NaN ELSE MaxOf(vs)

\* a max that reports 0 for a group without a valid entry
max_zero_filled(vs) ==
    IF Valid(vs) = <<>> THEN [k |-> "num", n |-> 0, d |-> 1] ELSE MaxOf(Valid(vs))

\* .max() over the time axis of a group (skipna): nan for no valid entry
nanmax(vs) ==
    IF Valid(vs) = <<>> THEN NaN ELSE MaxOf(Valid(vs))

\* insert v into the ascending sequence vs
RECURSIVE Insert(_, _)
Insert(v, vs) ==
    IF vs = <<>> THEN <<v>>
    ELSE IF Less(vs[1], v) THEN <<vs[1]>> \o Insert(v, Tail(vs))
    ELSE <<v>> \o vs

RECURSIVE Sorted(_)
Sorted(vs) == IF vs = <<>> THEN <<>> ELSE Insert(Head(vs), Sorted(Tail(vs)))

\* (a + b) / 2 on values that are finite or infinite
Mean2(a, b) ==
    IF IsNum(a) /\ IsNum(b) THEN Mul(Num(1, 2), Add(a, b))
    ELSE IF IsNum(a) THEN b
    ELSE IF IsNum(b) THEN a
    ELSE IF a = b THEN a ELSE NaN

\* .median() over the time axis of a group (skipna): the middle valid entry,
\* or the mean of the two middle ones; nan for no valid entry
nanmedian(vs) ==
    LET  o == Sorted(Valid(vs))
         k == Len(o)
    IN   IF k = 0 THEN NaN
         ELSE IF k % 2 = 1 THEN o[(k + 1) \div 2]
         ELSE Mean2(o[k \div 2], o[(k \div 2) + 1])

\* the statistic with skipna=False: a nan entry makes the group nan
statistic_propagating(v, vs) ==
    IF \E i \in DOMAIN vs : IsNaN(vs[i]) THEN NaN
    ELSE IF v = "hls_evi" THEN nanmedian(vs) ELSE nanmax(vs)

\* the statistic of the notebook of variant v
statistic(v, vs) == IF v = "hls_evi" THEN nanmedian(vs) ELSE nanmax(vs)

\* the values of variable name in the scenes of the group starting at bin
RECURSIVE GroupValues(_, _, _, _)
GroupValues(scenes, rule, bin, name) ==
    IF scenes = <<>> THEN <<>>
    ELSE IF BinOf(rule, Head(scenes).time) = bin
         THEN <<Head(scenes)[name]>> \o GroupValues(Tail(scenes), rule, bin, name)
         ELSE GroupValues(Tail(scenes), rule, bin, name)

\* a resample that reduces the bands and then applies the index formula to
\* the reduced bands of each group
index_of_reduced_bands(v, ds, rule) ==
    LET sc    == ds.scenes
        first == BinOf(rule, sc[1].time)
        last  == BinOf(rule, sc[Len(sc)].time)
        n     == ((last - first) \div RuleStep(rule)) + 1
        names == DOMAIN sc[1] \ {"time", "evi"}
    IN  [g \in 1 .. n |->
            LET bin == first + (g - 1) * RuleStep(rule)
                red == [nm \in names |-> statistic(v, GroupValues(sc, rule, bin, nm))]
            IN  [time |-> MonthStart(bin)] @@ red
                  @@ [evi |-> calculate_index(v, red)]]

\* ds.resample(time=rule).<statistic>(): one entry per group from the group
\* of the first scene to the group of the last, empty groups included;
\* every variable is reduced
resample(v, ds, rule) ==
    LET sc    == ds.scenes
        first == BinOf(rule, sc[1].time)
        last  == BinOf(rule, sc[Len(sc)].time)
        n     == ((last - first) \div RuleStep(rule)) + 1
        names == DOMAIN sc[1] \ {"time"}
    IN  [g \in 1 .. n |->
            LET bin == first + (g - 1) * RuleStep(rule)
            IN  [time |-> MonthStart(bin)]
                  @@ [nm \in names |-> statistic(v, GroupValues(sc, rule, bin, nm))]]

\* a selection that keeps every group
keep_all(groups, month) == groups

\* quarters.sel(time=quarters.time.dt.month == month)
sel_month(groups, month) ==
    SelectSeq(groups, LAMBDA g : g.time.m = month)

(***************************************************************************)
(* Specification of the mask expression on one quality code                *)
(***************************************************************************)
QualityCodes  == 0 .. 255
RejectMasks   == {0, pq_bin, bitflags, 255}
Sentinels     == {0, 255}

\* the variables of the parts a specification does not exercise
NoMask  == qcode = 0 /\ qbitmask = 0 /\ qmask = FALSE
NoIndex == /\ bands = [nir |-> NaN, red |-> NaN, blue |-> NaN]
           /\ scaled = [nir |-> NaN, red |-> NaN, blue |-> NaN]
           /\ evi = NaN
NoPipe  == /\ catalog = <<>> /\ year = 0 /\ items = <<>>
           /\ data = EmptyDataset /\ masked = EmptyDataset
           /\ resampled = <<>> /\ selected = <<>>
NoArea  == raster = <<>> /\ summary = NaN
\* hls_trend_raster = None
None    == [none |-> TRUE, data |-> <<>>, masks |-> <<>>]
NoLoop  == hls_trend_raster = None /\ hls_year_raster = None
NoStack == /\ api = "xarray" /\ tlen = 1 /\ xlen = 1 /\ cloudy = <<>>
           /\ stack = <<>> /\ smasked = <<>> /\ sagg = <<>>
           /\ parts = <<>> /\ final = <<>> /\ report = <<>>

InitMask ==
    /\ qcode \in QualityCodes
    /\ qbitmask \in RejectMasks
    /\ qnodata \in Sentinels
    /\ qmask = FALSE
    /\ pc = "mask"
    /\ variant = "hls_evi2"
    /\ NoIndex /\ NoPipe /\ NoArea /\ NoStack /\ NoLoop

BuildMask ==
    /\ pc = "mask"
    /\ pc' = "masked"
    /\ qmask' = quality_mask(qcode, qbitmask, qnodata)
    /\ UNCHANGED <<qcode, qbitmask, qnodata, variant, indexVars, pipeVars, areaVars, loopVars, stackVars>>

NextMask == BuildMask
SpecMask == InitMask /\ [][NextMask]_vars

\* bit i of the non-negative integer x is set
BitSet(x, i) == (x \div (2 ^ i)) % 2 = 1
QualityBits == 0 .. 7

\* the codes that agree with c on every bit of the pattern b
SameRejectBits(c, b) ==
    {c2 \in QualityCodes :
        \A i \in QualityBits : BitSet(b, i) => (BitSet(c2, i) <=> BitSet(c, i))}

\* C1: a quality code is marked invalid iff it shares a set bit with the
\* reject bitmask or equals the no-data sentinel; codes that differ only in
\* bits outside the bitmask (and are both, or neither, the sentinel) get the
\* same mask; with bitmask 0 the mask is the sentinel test alone.
C1_MaskIffRejectOrSentinel ==
    pc = "masked" =>
        /\ qmask <=> ((\E i \in QualityBits : BitSet(qcode, i) /\ BitSet(qbitmask, i))
                        \/ qcode = qnodata)
        /\ \A c2 \in SameRejectBits(qcode, qbitmask) :
              (c2 # qnodata /\ qcode # qnodata)
                  => (quality_mask(c2, qbitmask, qnodata) <=> qmask)
        /\ (qbitmask = 0 => (qmask <=> (qcode = qnodata)))

\* a code with the cloud bit and two bits outside the notebooks' pattern,
\* not the sentinel, has been marked invalid
C1_Witness ==
    /\ pc = "masked" /\ qbitmask = pq_bin /\ qcode = 194 /\ qnodata = 255
    /\ qmask

(***************************************************************************)
(* Specification of the index calculation on one pixel/time                *)
(***************************************************************************)
\* raw digital numbers: int16 for HLS, uint16 for Landsat; nan is a band
\* value that the masking step has already removed
HlsRaw     == {-9999, 0, 1, 5, 500, 1000, 2000, 3000, 7155, 10000, 32767}
LandsatRaw == {0, 1, 7272, 7273, 10000, 20000, 43636, 43637, 65535}

RawOf(v) == IF v = "landsat_evi2" THEN LandsatRaw ELSE HlsRaw
BandValues(v) == {IntVal(r) : r \in RawOf(v)} \cup {NaN}

InitIndex ==
    /\ variant \in Variants
    /\ \E nir \in BandValues(variant), red \in BandValues(variant) :
         \E blue \in (IF variant = "hls_evi" THEN BandValues(variant) ELSE {NaN}) :
            bands = [nir |-> nir, red |-> red, blue |-> blue]
    /\ scaled = [nir |-> NaN, red |-> NaN, blue |-> NaN]
    /\ evi = NaN
    /\ pc = "index"
    /\ qnodata = 0
    /\ NoMask /\ NoPipe /\ NoArea /\ NoStack /\ NoLoop

\* nir = scale_offset(data.nir); red = scale_offset(data.red); ...; the ratio
CalculateIndex ==
    /\ pc = "index"
    /\ pc' = "indexed"
    /\ scaled' = [b \in {"nir", "red", "blue"} |-> scaled_band(variant, bands[b])]
    /\ evi' = calculate_index(variant, bands)
    /\ UNCHANGED <<variant, bands, maskVars, pipeVars, areaVars, loopVars, stackVars>>

NextIndex == CalculateIndex
SpecIndex == InitIndex /\ [][NextIndex]_vars

\* -1 <= v <= 1
InUnitRange(v) == LessEq(IntVal(-1), v) /\ LessEq(v, One)

\* the bands the ratio of variant v reads, after scaling
RatioInputs(v, px) ==
    {scaled_band(v, px.nir), scaled_band(v, px.red)}
        \cup (IF v = "hls_evi" THEN {scaled_band(v, px.blue)} ELSE {})

SurvivesScaling(v, px) == \A b \in RatioInputs(v, px) : ~IsNaN(b)

\* the denominator of the ratio of variant v
RatioDenominator(v, px) ==
    IF v = "hls_evi"
    THEN evi_denominator(scaled_band(v, px.nir), scaled_band(v, px.red),
                         scaled_band(v, px.blue))
    ELSE evi2_denominator(scaled_band(v, px.nir), scaled_band(v, px.red))

\* C2: for nir and red values that survive scaling, the two-band index lies
\* within [-1, 1], under the HLS scaling and under the Landsat scaling.
C2_Evi2WithinUnitRange ==
    (pc = "indexed" /\ variant \in {"hls_evi2", "landsat_evi2"}
        /\ SurvivesScaling(variant, bands))
        => InUnitRange(evi)

\* C3: for nir, red and blue values that survive scaling, the three-band
\* index lies within [-1, 1] wherever it is defined.
C3_EviWithinUnitRange ==
    (pc = "indexed" /\ variant = "hls_evi" /\ SurvivesScaling(variant, bands)
        /\ ~IsNaN(evi))
        => InUnitRange(evi)

\* C4: whenever an input band of the ratio is "no value" or the denominator
\* of the ratio is zero, the index is "no value".
C4_MissingOrZeroDenominatorIsNoValue ==
    (pc = "indexed"
        /\ (~SurvivesScaling(variant, bands)
              \/ RatioDenominator(variant, bands) = Zero))
        => IsNaN(evi)

EVI2Variants == {"hls_evi2", "landsat_evi2"}
HLSVariants  == {"hls_evi2", "hls_evi"}

\* the bands the calculation of variant v scales
ScaledBands(v) == IF v = "hls_evi" THEN {"nir", "red", "blue"} ELSE {"nir", "red"}

\* C12: for every pair of valid scaled bands with nir equal to red, the
\* two-band index is exactly 0 (a defined value, not "no value"), under the
\* HLS scaling and under the Landsat scaling.
C12_EqualBandsGiveZero ==
    (pc = "indexed" /\ variant \in EVI2Variants
        /\ IsNum(scaled.nir) /\ IsNum(scaled.red) /\ scaled.nir = scaled.red)
        => (evi = Zero /\ ~IsNaN(evi))

\* equal Landsat bands that both clip to 0 (raw 1 and 7272) and equal HLS
\* bands of reflectance 0.1 have index 0; here the Landsat case
C12_Witness ==
    /\ pc = "indexed" /\ variant = "landsat_evi2"
    /\ bands.nir = IntVal(1) /\ bands.red = IntVal(7272)
    /\ scaled.nir = Zero /\ scaled.red = Zero
    /\ evi = Zero

\* C13: under the HLS scaling a band value is raw * 0.0001 when that is
\* greater than 0 and "no value" when it is 0 or negative; a "no value"
\* input stays "no value".
C13_HlsScalingInvalidatesNonPositive ==
    (pc = "indexed" /\ variant \in HLSVariants) =>
        \A b \in ScaledBands(variant) :
            IF IsNaN(bands[b]) THEN IsNaN(scaled[b])
            ELSE IF bands[b].n > 0
                 THEN scaled[b] = Num(bands[b].n, 10000) /\ Greater(scaled[b], Zero)
                 ELSE IsNaN(scaled[b])

\* a raw 0 became "no value", a raw 1000 became 0.1 and the fill value -9999
\* became "no value"
C13_Witness ==
    /\ pc = "indexed" /\ variant = "hls_evi"
    /\ bands.nir = IntVal(0) /\ IsNaN(scaled.nir)
    /\ bands.red = IntVal(1000) /\ scaled.red = Num(1, 10)
    /\ bands.blue = IntVal(-9999) /\ IsNaN(scaled.blue)

\* raw * 0.0000275 + -0.2 of a raw Landsat band value
LandsatReflectance(band) == Add(Mul(band, landsat_scale), landsat_offset)

\* C14: under the Landsat scaling every band value that is negative after
\* the scale 0.0000275 and the offset -0.2 is set to "no value".
C14_LandsatNegativeIsNoValue ==
    (pc = "indexed" /\ variant = "landsat_evi2") =>
        \A b \in ScaledBands(variant) :
            (IsNum(bands[b]) /\ Less(LandsatReflectance(bands[b]), Zero))
                => IsNaN(scaled[b])

MaxScenes == 3      \* scenes in the catalogue
NumYears  == 2      \* iterations of the year loop of Part 3

\* band values of a vegetated, a bare and a fill pixel
Spectrum(v, kind) ==
    IF v = "landsat_evi2"
    THEN IF kind = "veg"  THEN [nir |-> 20000, red |-> 10000, green |-> 9000, blue |-> 8000]
         ELSE IF kind = "bare" THEN [nir |-> 12000, red |-> 13000, green |-> 12000, blue |-> 11000]
         ELSE [nir |-> 0, red |-> 0, green |-> 0, blue |-> 0]
    ELSE IF kind = "veg"  THEN [nir |-> 3000, red |-> 1000, green |-> 800, blue |-> 500]
         ELSE IF kind = "bare" THEN [nir |-> 2000, red |-> 2200, green |-> 1800, blue |-> 1500]
         ELSE [nir |-> -9999, red |-> -9999, green |-> -9999, blue |-> -9999]

\* quality codes: fmask (clear with aerosol bits, cloud, fill) and qa_pixel
\* (clear, high confidence cloud, fill)
QaCode(v, kind) ==
    IF v = "landsat_evi2"
    THEN IF kind = "clear" THEN 21824 ELSE IF kind = "cloud" THEN 21832 ELSE 1
    ELSE IF kind = "clear" THEN 64 ELSE IF kind = "cloud" THEN 66 ELSE 255

\* the no-data value of fmask the band metadata can carry (data.fmask.odc.nodata)
FmaskNodata == {255}

Contents ==
    {<<"veg", "clear">>, <<"bare", "clear">>, <<"veg", "cloud">>,
     <<"bare", "cloud">>, <<"fill", "fill">>, <<"fill", "clear">>}

TrendContents == {<<"veg", "clear">>, <<"bare", "clear">>, <<"veg", "cloud">>}

\* the raw scene of variant v at date t with content c
Scene(v, t, c) ==
    LET sp == Spectrum(v, c[1])
    IN  [time |-> t, nir |-> IntVal(sp.nir), red |-> IntVal(sp.red),
         green |-> IntVal(sp.green), blue |-> IntVal(sp.blue),
         qa |-> IntVal(QaCode(v, c[2]))]

\* the dates of a set in ascending order
RECURSIVE DateSeq(_)
DateSeq(S) ==
    IF S = {} THEN <<>>
    ELSE LET t == CHOOSE a \in S : \A b \in S : DateLE(a, b)
         IN  <<t>> \o DateSeq(S \ {t})

\* the catalogue with the scenes of content c[t] at the dates t of S
CatalogueOf(v, S, c) ==
    LET ds == DateSeq(S)
    IN  [i \in DOMAIN ds |-> Scene(v, ds[i], c[ds[i]])]

\* cat is a catalogue of 1 .. MaxScenes scenes at dates of D with contents of C
IsCatalogue(cat, v, D, C) ==
    \E S \in SUBSET D :
        /\ Cardinality(S) \in 1 .. MaxScenes
        /\ \E c \in [S -> C] : cat = CatalogueOf(v, S, c)

(***************************************************************************)
(* Parts 1 and 2: one year of data, monthly statistic                      *)
(***************************************************************************)
\* start_date = "2022-06-01"; end_date = "2023-06-01"
date_range == [start |-> Date(2022, 6, 1), end |-> Date(2023, 6, 1)]

SceneDates ==
    {Date(2022, 5, 31), Date(2022, 6, 1), Date(2022, 6, 15), Date(2022, 6, 30),
     Date(2022, 8, 10)}

Init ==
    /\ pc = "search"
    /\ variant \in Variants
    /\ qnodata \in FmaskNodata
    /\ IsCatalogue(catalog, variant, SceneDates, Contents)
    /\ year = 0 /\ items = <<>>
    /\ data = EmptyDataset /\ masked = EmptyDataset
    /\ resampled = <<>> /\ selected = <<>>
    /\ NoMask /\ NoIndex /\ NoArea /\ NoStack /\ NoLoop

\* items = client.search(..., datetime=date_range).items()
Search ==
    /\ pc = "search"
    /\ items' = SelectSeq(catalog, LAMBDA s : InWindow(s.time, date_range))
    /\ pc' = "load"
    /\ UNCHANGED <<variant, maskVars, indexVars, areaVars, loopVars, stackVars,
                   catalog, year, data, masked, resampled, selected>>

\* data = load(items, ...): the scenes in time order, integer dtype
Load ==
    /\ pc = "load"
    /\ items # <<>>
    /\ data' = [dtype |-> "int", scenes |-> items]
    /\ pc' = "mask"
    /\ UNCHANGED <<variant, maskVars, indexVars, areaVars, loopVars, stackVars,
                   catalog, year, items, masked, resampled, selected>>

\* masked = apply_quality_mask(data) / data_masked = mask_landsat_clouds(data)
ApplyMask ==
    /\ pc = "mask"
    /\ masked' = apply_mask(variant, data, qnodata)
    /\ pc' = "index"
    /\ UNCHANGED <<variant, maskVars, indexVars, areaVars, loopVars, stackVars,
                   catalog, year, items, data, resampled, selected>>

\* masked["evi"] = calculate_evi(masked)
AddIndex ==
    /\ pc = "index"
    /\ masked' = with_index(variant, masked)
    /\ pc' = "resample"
    /\ UNCHANGED <<variant, maskVars, indexVars, areaVars, loopVars, stackVars,
                   catalog, year, items, data, resampled, selected>>

\* max_values = masked.resample(time="1MS").max()   (median for EVI)
ResampleMonthly ==
    /\ pc = "resample"
    /\ resampled' = resample(variant, masked, "1MS")
    /\ pc' = "done"
    /\ UNCHANGED <<variant, maskVars, indexVars, areaVars, loopVars, stackVars,
                   catalog, year, items, data, masked, selected>>

Next == Search \/ Load \/ ApplyMask \/ AddIndex \/ ResampleMonthly
Spec == Init /\ [][Next]_vars

SpectralBands == {"red", "green", "blue", "nir"}

\* the mask of a raw quality code, bit by bit: HLS rejects bits 1, 2, 3 and
\* the no-data value, Landsat rejects bits 3 and 4
RejectBits(v) == IF v = "landsat_evi2" THEN {3, 4} ELSE {1, 2, 3}
HasRejectBit(v, code) == \E i \in RejectBits(v) : BitSet(code, i)
MaskIsTrue(v, code, nd) ==
    HasRejectBit(v, code) \/ (v # "landsat_evi2" /\ code = nd)

\* C5: after masking and the index calculation, a pixel/time whose mask is
\* True has "no value" in every spectral band and in the index, and one whose
\* mask is False keeps exactly its raw band values.
C5_MaskedPixelsHaveNoValue ==
    pc \in {"resample", "done"} =>
        \A i \in DOMAIN data.scenes :
            LET raw == data.scenes[i]
                out == masked.scenes[i]
            IN  IF MaskIsTrue(variant, raw.qa.n, qnodata)
                THEN /\ \A b \in SpectralBands : IsNaN(out[b])
                     /\ IsNaN(out.evi)
                ELSE \A b \in SpectralBands : out[b] = raw[b]

\* a cloudy vegetated scene was blanked and a clear one kept with its index
C5_Witness ==
    /\ pc = "done"
    /\ \E i, j \in DOMAIN data.scenes :
          /\ HasRejectBit(variant, data.scenes[i].qa.n)
          /\ data.scenes[i].nir = IntVal(Spectrum(variant, "veg").nir)
          /\ IsNaN(masked.scenes[i].nir)
          /\ ~MaskIsTrue(variant, data.scenes[j].qa.n, qnodata)
          /\ IsNum(masked.scenes[j].evi)

\* the no-data sentinel of qa_pixel: the fill code
QaPixelSentinel == QaCode("landsat_evi2", "fill")

\* every variable of the masked scene is "no value"
IsBlank(s) == \A b \in BandNames : IsNaN(s[b])

LargerValid(a, b) ==
    IF IsNaN(a) THEN b ELSE IF IsNaN(b) THEN a ELSE IF Less(a, b) THEN b ELSE a

SameMonth(a, b) == a.y = b.y /\ a.m = b.m

\* three scenes of one month, exactly one of them with a reject bit set
OneOfThreeRejected ==
    /\ Len(data.scenes) = 3
    /\ \A i \in 1 .. 3 : SameMonth(data.scenes[i].time, data.scenes[1].time)
    /\ Cardinality({i \in 1 .. 3 : HasRejectBit(variant, data.scenes[i].qa.n)}) = 1

\* C6: with three scenes in one month of which exactly one has a reject bit
\* set, the monthly max of the index is the max of the index values of the
\* two other scenes.
C6_MonthlyMaxExcludesMaskedScene ==
    (pc = "done" /\ variant # "hls_evi" /\ OneOfThreeRejected) =>
        LET rest == {i \in 1 .. 3 : ~HasRejectBit(variant, data.scenes[i].qa.n)}
            a    == CHOOSE i \in rest : TRUE
            b    == CHOOSE i \in rest : i # a
        IN  /\ Len(resampled) = 1
            /\ resampled[1].evi =
                   LargerValid(calculate_index(variant, data.scenes[a]),
                               calculate_index(variant, data.scenes[b]))

\* the rejected scene is the vegetated one, whose index would have been the
\* largest, and the month reports the smaller index of the bare scenes
C6_Witness ==
    /\ pc = "done" /\ variant = "hls_evi2" /\ OneOfThreeRejected
    /\ \E i \in 1 .. 3 :
          /\ HasRejectBit(variant, data.scenes[i].qa.n)
          /\ IsNum(resampled[1].evi)
          /\ Less(resampled[1].evi, calculate_index(variant, data.scenes[i]))

\* the scenes of the masked dataset that fall in the month of group g
MonthMembers(g) ==
    {i \in DOMAIN masked.scenes : SameMonth(masked.scenes[i].time, g.time)}

ValidMembers(g, name) ==
    {i \in MonthMembers(g) : ~IsNaN(masked.scenes[i][name])}

\* C7: for max and for median, a group with no valid entry (only "no value"
\* entries, or no entries) yields "no value", and a group with exactly one
\* valid entry yields exactly that entry.
C7_EmptyAndSingletonGroups ==
    pc = "done" =>
        \A g \in DOMAIN resampled : \A name \in BandNames \cup {"evi"} :
            LET ok == ValidMembers(resampled[g], name)
            IN  /\ ok = {} => IsNaN(resampled[g][name])
                /\ Cardinality(ok) = 1 =>
                      resampled[g][name] = masked.scenes[CHOOSE i \in ok : TRUE][name]

\* the median notebook met a month without scenes, a month whose scenes are
\* all "no value", and reported the one valid index of a month with a
\* "no value" scene beside it
C7_Witness ==
    /\ pc = "done" /\ variant = "hls_evi"
    /\ \E g \in DOMAIN resampled : MonthMembers(resampled[g]) = {}
    /\ \E g \in DOMAIN resampled :
          /\ Cardinality(MonthMembers(resampled[g])) = 2
          /\ Cardinality(ValidMembers(resampled[g], "evi")) = 1
          /\ IsNum(resampled[g].evi)

\* C26: in the max notebooks, for every period with at least one valid
\* index value the period max is the index value of one of the scenes of
\* the period and is greater than or equal to every valid index value of
\* the period.
C26_MaxAttainedAndDominates ==
    (pc = "done" /\ variant # "hls_evi") =>
        \A g \in DOMAIN resampled :
            LET ok == ValidMembers(resampled[g], "evi")
            IN  ok # {} =>
                  /\ \E i \in ok : resampled[g].evi = masked.scenes[i].evi
                  /\ \A i \in ok : LessEq(masked.scenes[i].evi, resampled[g].evi)

\* a month whose largest index is the one of its first scene, with a smaller
\* valid index after it
C26_Witness ==
    /\ pc = "done" /\ variant # "hls_evi"
    /\ \E g \in DOMAIN resampled :
          \E i, j \in ValidMembers(resampled[g], "evi") :
              /\ i < j
              /\ Less(masked.scenes[j].evi, masked.scenes[i].evi)
              /\ resampled[g].evi = masked.scenes[i].evi

\* the quality values of the masked scenes of the month of group g, in time
\* order
MonthQuality(g) ==
    LET sc == SelectSeq(masked.scenes, LAMBDA x : SameMonth(x.time, g.time))
    IN  [k \in DOMAIN sc |-> sc[k].qa]

\* C28: the dataset apply_quality_mask returns has the variables of its
\* input, fmask included (drop_vars returns a new dataset, which is thrown
\* away); fmask is "no value" where the mask is True and as loaded
\* elsewhere, and the temporal reduction reduces fmask with the other
\* variables.
C28_QualityBandKept ==
    (variant \in HLSVariants /\ pc \in {"index", "resample", "done"}) =>
        /\ \A i \in DOMAIN masked.scenes :
              /\ DOMAIN masked.scenes[i] \ {"evi"} = DOMAIN data.scenes[i]
              /\ "qa" \in DOMAIN masked.scenes[i]
              /\ masked.scenes[i].qa =
                    IF MaskIsTrue(variant, data.scenes[i].qa.n, qnodata)
                    THEN NaN ELSE data.scenes[i].qa
        /\ pc = "done" =>
              \A g \in DOMAIN resampled :
                  /\ DOMAIN resampled[g] = {"time", "evi"} \cup BandNames
                  /\ resampled[g].qa = statistic(variant, MonthQuality(resampled[g]))

\* a month with a rejected and a clear scene: the reduced dataset carries the
\* quality value of the clear scene
C28_Witness ==
    /\ pc = "done" /\ variant \in HLSVariants
    /\ \E g \in DOMAIN resampled :
          /\ IsNum(resampled[g].qa)
          /\ \E i \in MonthMembers(resampled[g]) : IsNaN(masked.scenes[i].qa)
          /\ \E i \in MonthMembers(resampled[g]) : masked.scenes[i].qa = resampled[g].qa

(***************************************************************************)
(* Part 3: the year loop, quarterly statistic, anchored quarters           *)
(***************************************************************************)
\* year_range = range(2013, 2024) (HLS) / range(2000, 2025) (Landsat),
\* cut to NumYears years; the HLS cut starts at 2015, so that it holds the
\* leap February of 2016
first_year(v) == IF v = "landsat_evi2" THEN 2000 ELSE 2015
year_range(v) == first_year(v) .. (first_year(v) + NumYears - 1)

\* HLS: f"{year}-12-01" / f"{year+1}-02-28"; Landsat: f"{year}-01-01/{year}-12-31"
year_window(v, y) ==
    IF v = "landsat_evi2"
    THEN [start |-> Date(y, 1, 1), end |-> Date(y, 12, 31)]
    ELSE [start |-> Date(y, 12, 1), end |-> Date(y + 1, 2, 28)]

\* resample(time="QS-DEC") (HLS) / resample(time="QS-FEB") (Landsat)
quarter_rule(v) == IF v = "landsat_evi2" THEN "QS-FEB" ELSE "QS-DEC"

IsLeap(y) == (y % 4 = 0 /\ y % 100 # 0) \/ y % 400 = 0

DaysIn(y, m) ==
    IF m = 2 THEN (IF IsLeap(y) THEN 29 ELSE 28)
    ELSE IF m \in {4, 6, 9, 11} THEN 30 ELSE 31

TrendDates(v) ==
    IF v = "landsat_evi2"
    THEN UNION {{Date(y, 2, 10), Date(y, 4, 30),
                 IF y = first_year(v) THEN Date(y, 1, 20) ELSE Date(y, 6, 15)}
                   : y \in year_range(v)}
    ELSE UNION {{Date(y, 12, 1), Date(y + 1, 2, DaysIn(y + 1, 2)), Date(y + 1, 3, 1)}
                   : y \in year_range(v)}

\* the Landsat loop loads every year on its own, so every year has a scene
EveryYearHasScene(v, cat) ==
    v = "landsat_evi2" =>
        \A y \in year_range(v) : \E i \in DOMAIN cat : cat[i].time.y = y

InitTrend ==
    /\ pc = "query"
    /\ variant \in Variants
    /\ qnodata \in FmaskNodata
    /\ IsCatalogue(catalog, variant, TrendDates(variant), TrendContents)
    /\ EveryYearHasScene(variant, catalog)
    /\ year = first_year(variant)
    /\ items = <<>>
    /\ data = EmptyDataset /\ masked = EmptyDataset
    /\ resampled = <<>> /\ selected = <<>>
    /\ NoMask /\ NoIndex /\ NoArea /\ NoStack /\ NoLoop

\* one iteration of "for year in year_range": search the year's window and
\* append what it finds
QueryYear ==
    /\ pc = "query"
    /\ year \in year_range(variant)
    /\ items' = items \o
          SelectSeq(catalog, LAMBDA s : InWindow(s.time, year_window(variant, year)))
    /\ year' = year + 1
    /\ UNCHANGED <<pc, variant, maskVars, indexVars, areaVars, loopVars, stackVars,
                   catalog, data, masked, resampled, selected>>

\* after the loop: load(peak_vegetation_items) / xr.concat(trend_data, dim="time")
LoadTrend ==
    /\ pc = "query"
    /\ year \notin year_range(variant)
    /\ items # <<>>
    /\ data' = [dtype |-> "int", scenes |-> items]
    /\ pc' = "mask"
    /\ UNCHANGED <<variant, maskVars, indexVars, areaVars, loopVars, stackVars,
                   catalog, year, items, masked, resampled, selected>>

\* quarters_max = trend_data.resample(time="QS-FEB").max()
ResampleQuarters ==
    /\ pc = "resample"
    /\ resampled' = resample(variant, masked, quarter_rule(variant))
    /\ pc' = "select"
    /\ UNCHANGED <<variant, maskVars, indexVars, areaVars, loopVars, stackVars,
                   catalog, year, items, data, masked, selected>>

\* feb_quarters_max = quarters_max.sel(time=quarters_max.time.dt.month == 2)
SelectAnchor ==
    /\ pc = "select"
    /\ selected' = sel_month(resampled, RuleAnchor(quarter_rule(variant)))
    /\ pc' = "done"
    /\ UNCHANGED <<variant, maskVars, indexVars, areaVars, loopVars, stackVars,
                   catalog, year, items, data, masked, resampled>>

\* the masking function called on its own output: the cell
\* trend_data = mask_landsat_clouds(trend_data);
\* trend_data["evi2"] = calculate_evi2(trend_data) run a second time, or
\* apply_quality_mask(trend_data_masked).  A raise ends the cell and leaves
\* every name as it was.
MaskAgain ==
    /\ pc = "resample"
    /\ IF bitwise_and_raises(masked)
       THEN /\ pc' = "raised"
            /\ UNCHANGED masked
       ELSE /\ pc' = "resample"
            /\ masked' = with_index(variant, apply_mask(variant, masked, qnodata))
    /\ UNCHANGED <<variant, maskVars, indexVars, areaVars, loopVars, stackVars,
                   catalog, year, items, data, resampled, selected>>


Anchor == RuleAnchor(quarter_rule(variant))

\* the positions in the resampled sequence of the groups starting in month m
StartingIn(m) == {i \in DOMAIN resampled : resampled[i].time.m = m}

\* sub is seq restricted to the positions keep, in order
IsRestriction(sub, seq, keep) ==
    /\ Len(sub) = Cardinality(keep)
    /\ \A j \in DOMAIN sub :
          \E i \in keep :
             /\ sub[j] = seq[i]
             /\ Cardinality({k \in keep : k < i}) = j - 1

\* C8: the selection month == anchor keeps exactly the quarter groups that
\* start in the anchor month; the groups start three months apart in the
\* months anchor, anchor+3, anchor+6, anchor+9, so of any four consecutive
\* groups exactly one is kept, and it starts in the anchor month.
C8_AnchoredQuarterFilter ==
    pc = "done" =>
        /\ IsRestriction(selected, resampled, StartingIn(Anchor))
        /\ \A j \in DOMAIN selected : selected[j].time.m = Anchor
        /\ \A i \in DOMAIN resampled :
              /\ (resampled[i].time.m - Anchor + 12) % 3 = 0
              /\ resampled[i].time.d = 1
              /\ i > 1 => MonthIndex(resampled[i].time)
                              = MonthIndex(resampled[i - 1].time) + 3
        /\ \A i \in DOMAIN resampled :
              i + 3 <= Len(resampled) =>
                 Cardinality({k \in i .. i + 3 :
                     \E j \in DOMAIN selected : selected[j] = resampled[k]}) = 1

\* QS-FEB produced five consecutive quarters (Feb, May, Aug, Nov, Feb) and the
\* filter kept the two that start in February
C8_Witness ==
    /\ pc = "done" /\ variant = "landsat_evi2"
    /\ Len(resampled) = 5
    /\ {resampled[i].time.m : i \in 1 .. 4} = {2, 5, 8, 11}
    /\ Len(selected) = 2

\* the days of the December-January-February quarter that starts in year y
PeakQuarterDays(y) ==
    {Date(y, 12, d) : d \in 1 .. DaysIn(y, 12)}
        \cup {Date(y + 1, 1, d) : d \in 1 .. DaysIn(y + 1, 1)}
        \cup {Date(y + 1, 2, d) : d \in 1 .. DaysIn(y + 1, 2)}

\* C21: in the HLS trend analysis the query window of every year of the loop
\* contains every day from 1 December of that year to the last day of
\* February of the next year, so after the loop every catalogue scene of one
\* of those quarters has been found, in leap years too.
C21_HlsWindowsCoverPeakQuarter ==
    (variant \in HLSVariants /\ pc # "query") =>
        /\ \A y \in year_range(variant) : \A t \in PeakQuarterDays(y) :
              InWindow(t, year_window(variant, y))
        /\ \A i \in DOMAIN catalog :
              (\E y \in year_range(variant) : catalog[i].time \in PeakQuarterDays(y))
                  => \E j \in DOMAIN items : items[j] = catalog[i]

\* the stages after the quarterly statistic
Resampled == {"select", "done"}

\* the scenes of the masked dataset that fall into the quarter group g
QuarterScenes(g) ==
    SelectSeq(masked.scenes,
              LAMBDA sc : MonthIndex(sc.time) \in
                            MonthIndex(g.time) .. MonthIndex(g.time) + 2)

\* the index formula on the bands of one scene or of one group
IndexOf(r) == calculate_index(variant, r)

\* the per-scene index values of the quarter group g, in time order
SceneIndexes(g) ==
    LET sc == QuarterScenes(g)
    IN  [k \in DOMAIN sc |-> IndexOf(sc[k])]

\* C22: the index is computed scene by scene from the masked bands before
\* the temporal reduction runs, and the reduced index of a group is the max
\* (median for EVI) of the per-scene index values of the group; where that
\* differs from the index formula on the reduced bands of the group, the
\* result is the former.
C22_IndexBeforeReduction ==
    /\ pc \in {"query", "mask", "index", "resample"} => resampled = <<>>
    /\ pc \in ({"resample"} \cup Resampled) =>
          \A i \in DOMAIN masked.scenes :
              /\ "evi" \in DOMAIN masked.scenes[i]
              /\ masked.scenes[i].evi = IndexOf(masked.scenes[i])
    /\ pc \in Resampled =>
          \A g \in DOMAIN resampled :
              LET reduced == statistic(variant, SceneIndexes(resampled[g]))
              IN  /\ resampled[g].evi = reduced
                  /\ IndexOf(resampled[g]) # reduced
                        => resampled[g].evi # IndexOf(resampled[g])

\* a quarter with a vegetated and a bare scene: the reduced index is the
\* index of the vegetated scene, which the formula on the reduced bands
\* (nir of the vegetated scene, red of the bare one) does not give
C22_Witness ==
    /\ pc = "done" /\ variant = "landsat_evi2"
    /\ \E g \in DOMAIN resampled :
          /\ Len(QuarterScenes(resampled[g])) = 2
          /\ IsNum(resampled[g].evi)
          /\ resampled[g].nir = IntVal(Spectrum(variant, "veg").nir)
          /\ resampled[g].red = IntVal(Spectrum(variant, "bare").red)
          /\ resampled[g].evi = IndexOf([nir |-> IntVal(Spectrum(variant, "veg").nir),
                                          red |-> IntVal(Spectrum(variant, "veg").red)])
          /\ resampled[g].evi # IndexOf(resampled[g])

\* the positions of the groups whose three months hold date t
GroupsHolding(t) ==
    {g \in DOMAIN resampled :
        /\ DateLE(resampled[g].time, t)
        /\ DateLess(t, MonthStart(MonthIndex(resampled[g].time) + 3))}

\* the index values of the masked scenes of December y, January y + 1 and
\* February y + 1, in time order
SummerIndexes(y) ==
    LET sc == SelectSeq(masked.scenes,
                        LAMBDA s : \/ (s.time.y = y /\ s.time.m = 12)
                                   \/ (s.time.y = y + 1 /\ s.time.m \in {1, 2}))
    IN  [k \in DOMAIN sc |-> sc[k].evi]

\* C23: under QS-DEC every scene timestamp lies in exactly one group, the
\* groups start on the first of December, March, June or September and
\* follow each other three months apart, and a scene of January or February
\* of year Y + 1 is reduced in the group starting 1 December of year Y
\* together with the scenes of December of year Y.
C23_QuarterGroupsDecAnchored ==
    (variant \in HLSVariants /\ pc \in Resampled) =>
        /\ \A g \in DOMAIN resampled :
              /\ resampled[g].time.m \in {12, 3, 6, 9}
              /\ resampled[g].time.d = 1
              /\ g > 1 => MonthIndex(resampled[g].time)
                             = MonthIndex(resampled[g - 1].time) + 3
        /\ \A i \in DOMAIN masked.scenes :
              LET t == masked.scenes[i].time
              IN  /\ Cardinality(GroupsHolding(t)) = 1
                  /\ \A g \in GroupsHolding(t) :
                        /\ t.m = 12 => resampled[g].time = Date(t.y, 12, 1)
                        /\ t.m \in {1, 2} => resampled[g].time = Date(t.y - 1, 12, 1)
                        /\ t.m \in {12, 1, 2} =>
                              resampled[g].evi =
                                statistic(variant,
                                          SummerIndexes(resampled[g].time.y))

\* a December scene and a February scene of the following year in one group
\* whose max is the index of the February scene
C23_Witness ==
    /\ pc = "done" /\ variant = "hls_evi2"
    /\ \E i, j \in DOMAIN masked.scenes :
          /\ masked.scenes[i].time.m = 12
          /\ masked.scenes[j].time.m = 2
          /\ masked.scenes[j].time.y = masked.scenes[i].time.y + 1
          /\ IsNum(masked.scenes[i].evi) /\ IsNum(masked.scenes[j].evi)
          /\ Less(masked.scenes[i].evi, masked.scenes[j].evi)
          /\ \E g \in DOMAIN selected :
                /\ selected[g].time = Date(masked.scenes[i].time.y, 12, 1)
                /\ selected[g].evi = masked.scenes[j].evi

\* the index values of the masked scenes of February, March and April of
\* year y, in time order
PeakIndexes(y) ==
    LET sc == SelectSeq(masked.scenes,
                        LAMBDA s : s.time.y = y /\ s.time.m \in {2, 3, 4})
    IN  [k \in DOMAIN sc |-> sc[k].evi]

\* the masked scenes of year y outside February, March and April that hold
\* an index value
OffPeakValid(y) ==
    {i \in DOMAIN masked.scenes :
        /\ masked.scenes[i].time.y = y
        /\ masked.scenes[i].time.m \notin {2, 3, 4}
        /\ IsNum(masked.scenes[i].evi)}

C27_MaskAgainIsIdempotent ==
    [][MaskAgain => (pc' # "raised" /\ masked' = masked)]_vars

\* a group holds no data when every variable of it is "no value"
HoldsNoData(g) == \A name \in DOMAIN g \ {"time"} : IsNaN(g[name])

\* C9: in the Landsat trend analysis every loaded scene has a timestamp in
\* the February-March-April quarter, so every quarter group the anchor
\* filter drops holds no data.
C9_DroppedQuartersHoldNoData ==
    (pc = "done" /\ variant = "landsat_evi2") =>
        /\ \A i \in DOMAIN data.scenes : data.scenes[i].time.m \in {2, 3, 4}
        /\ \A i \in DOMAIN resampled :
              resampled[i].time.m # Anchor => HoldsNoData(resampled[i])

(***************************************************************************)
(* The spatial mean of one period of the aggregate                         *)
(***************************************************************************)
Width  == 2         \* pixels along x
Height == 2         \* pixels along y

Pixels == (1 .. Width) \X (1 .. Height)

\* the values of a raster in a fixed pixel order
RECURSIVE ValuesOf(_, _)
ValuesOf(r, P) ==
    IF P = {} THEN <<>>
    ELSE LET p == CHOOSE q \in P : TRUE
         IN  <<r[p]>> \o ValuesOf(r, P \ {p})

\* the IEEE sum of values that are finite or infinite
RECURSIVE SumOf(_)
SumOf(vs) ==
    IF vs = <<>> THEN Zero
    ELSE LET a == Head(vs)
             b == SumOf(Tail(vs))
         IN  IF IsNum(a) /\ IsNum(b) THEN Add(a, b)
             ELSE IF IsNaN(a) \/ IsNaN(b) THEN NaN
             ELSE IF IsNum(a) THEN b
             ELSE IF IsNum(b) THEN a
             ELSE IF a = b THEN a ELSE NaN

\* a mean that counts "no value" pixels as zeros
mean_nan_as_zero(r) ==
    LET ok == Valid(ValuesOf(r, DOMAIN r))
        t  == SumOf(ok)
    IN  IF IsNum(t) THEN Div(t, IntVal(Cardinality(DOMAIN r))) ELSE t

\* period.mean(["x", "y"]) (skipna): the sum of the valid pixels over their
\* count; nan when no pixel is valid
mean_xy(r) ==
    LET ok == Valid(ValuesOf(r, DOMAIN r))
        t  == SumOf(ok)
    IN  IF ok = <<>> THEN NaN
        ELSE IF IsNum(t) THEN Div(t, IntVal(Len(ok))) ELSE t

AreaValues == {NaN, One, Num(12, 35), PInf}

InitArea ==
    /\ pc = "mean"
    /\ variant = "hls_evi"
    /\ qnodata = 0
    /\ raster \in [Pixels -> AreaValues]
    /\ summary = NaN
    /\ NoMask /\ NoIndex /\ NoPipe /\ NoStack /\ NoLoop

\* annual_max_evi2 = feb_quarters_max_evi2.mean(["x", "y"])
AreaMean ==
    /\ pc = "mean"
    /\ summary' = mean_xy(raster)
    /\ pc' = "summarised"
    /\ UNCHANGED <<variant, maskVars, indexVars, pipeVars, raster, loopVars, stackVars>>

NextArea == AreaMean
SpecArea == InitArea /\ [][NextArea]_vars

ValidPixels == {p \in Pixels : ~IsNaN(raster[p])}

\* C10: the summary of a period is the arithmetic mean of its valid pixels
\* only: with half the pixels "no value" and the others 1.0 it is 1.0, and
\* with every pixel "no value" it is "no value".
C10_AreaSummaryIgnoresNoValue ==
    pc = "summarised" =>
        /\ ValidPixels = {} => IsNaN(summary)
        /\ (ValidPixels # {} /\ \A p \in ValidPixels : IsNum(raster[p])) =>
              /\ IsNum(summary)
              /\ Mul(summary, IntVal(Cardinality(ValidPixels)))
                    = SumOf(ValuesOf(raster, ValidPixels))
        /\ (2 * Cardinality(ValidPixels) = Cardinality(Pixels)
              /\ \A p \in ValidPixels : raster[p] = One) => summary = One

\* half the pixels are "no value", the others 1.0, and the summary is 1.0
C10_Witness ==
    /\ pc = "summarised"
    /\ 2 * Cardinality(ValidPixels) = Cardinality(Pixels)
    /\ \A p \in ValidPixels : raster[p] = One
    /\ summary = One

(***************************************************************************)
(* Part 3, the time series of the area: the spatial mean of every reported *)
(* period                                                                  *)
(***************************************************************************)
\* annual_max_evi2 = feb_quarters_max_evi2.mean(["x", "y"]), over an area
\* whose pixels all hold the time series of the pipeline
MeanTrend ==
    /\ pc = "done"
    /\ report' = [g \in DOMAIN selected |->
                    mean_xy([p \in Pixels |-> selected[g].evi])]
    /\ pc' = "summary"
    /\ UNCHANGED <<variant, maskVars, indexVars, pipeVars, areaVars, loopVars,
                   api, tlen, xlen, cloudy, stack, smasked, sagg, parts, final>>

NextTrend ==
    \/ QueryYear \/ LoadTrend \/ ApplyMask \/ AddIndex \/ MaskAgain
    \/ ResampleQuarters \/ SelectAnchor \/ MeanTrend
SpecTrend == InitTrend /\ [][NextTrend]_vars

\* the masked scenes of the anchor quarter that starts in year y
AnchorScenes(y) ==
    {i \in DOMAIN masked.scenes :
        MonthIndex(masked.scenes[i].time) \in
            MonthIndex(Date(y, Anchor, 1)) .. MonthIndex(Date(y, Anchor, 1)) + 2}

\* the years whose anchor quarter has a scene, and the years from the first
\* to the last of them
AnchorYears ==
    {y \in UNION {{masked.scenes[i].time.y - 1, masked.scenes[i].time.y}
                     : i \in DOMAIN masked.scenes} :
        AnchorScenes(y) # {}}
AnchorSpan ==
    IF AnchorYears = {} THEN {}
    ELSE LET lo == CHOOSE a \in AnchorYears : \A b \in AnchorYears : a <= b
             hi == CHOOSE a \in AnchorYears : \A b \in AnchorYears : b <= a
         IN  lo .. hi

\* the reported periods that start in year y
PeriodsOf(y) == {g \in DOMAIN selected : selected[g].time.y = y}

Apis == {"xarray", "eo_insights"}

\* the dates of a three-scene stack: one month, or two months with an empty
\* month between them
StackDates ==
    {{Date(2022, 6, 1), Date(2022, 6, 15), Date(2022, 6, 30)},
     {Date(2022, 6, 1), Date(2022, 6, 15), Date(2022, 8, 10)}}

StackContents  == {<<"veg", "clear">>, <<"bare", "clear">>}
\* the cells a cloud can cover: <<pixel, scene>>
CloudyCells    == {<< <<1, 1>>, 1 >>, << <<Width, Height>>, 2 >>}
TimeChunkSizes == {1, 2}
TileWidths     == {Width - 1, Width}

\* the loaded stack: every pixel holds the scenes of cat, but for the cell
\* <<pixel, scene>> that a cloud covers
RawStack(v, cat, cell) ==
    [p \in Pixels |->
        [dtype  |-> "int",
         scenes |-> [i \in DOMAIN cat |->
                        IF cell = <<p, i>>
                        THEN Scene(v, cat[i].time, <<"veg", "cloud">>)
                        ELSE cat[i]]]]

InitStack ==
    /\ pc = "mask"
    /\ variant \in Variants
    /\ api \in (IF variant = "hls_evi2" THEN Apis ELSE {"xarray"})
    /\ qnodata \in FmaskNodata
    /\ \E S \in StackDates : \E c \in [S -> StackContents] :
          /\ Cardinality({t \in S : c[t] = <<"bare", "clear">>}) <= 1
          /\ catalog = CatalogueOf(variant, S, c)
    /\ cloudy \in {<<>>} \cup CloudyCells
    /\ tlen \in TimeChunkSizes
    /\ xlen \in TileWidths
    /\ stack = RawStack(variant, catalog, cloudy)
    /\ smasked = <<>> /\ sagg = <<>>
    /\ parts = <<>> /\ final = <<>> /\ report = <<>>
    /\ year = 0 /\ items = <<>>
    /\ data = EmptyDataset /\ masked = EmptyDataset
    /\ resampled = <<>> /\ selected = <<>>
    /\ NoMask /\ NoIndex /\ NoArea /\ NoLoop

\* masked = apply_quality_mask(data) returns a new dataset;
\* hls_raster.apply_mask("fmask", nodata=np.nan) replaces hls_raster.data
MaskStack ==
    /\ pc = "mask"
    /\ smasked' = [p \in Pixels |-> apply_mask(variant, stack[p], qnodata)]
    /\ stack' = IF api = "eo_insights" THEN smasked' ELSE stack
    /\ pc' = "index"
    /\ UNCHANGED <<variant, maskVars, indexVars, pipeVars, areaVars, loopVars,
                   api, tlen, xlen, cloudy, sagg, parts, final, report>>

\* masked["evi"] = calculate_evi(masked);
\* hls_raster.data["evi2"] = calculate_evi2(hls_raster.data)
IndexStack ==
    /\ pc = "index"
    /\ smasked' = [p \in Pixels |-> with_index(variant, smasked[p])]
    /\ stack' = IF api = "eo_insights" THEN smasked' ELSE stack
    /\ pc' = "resample"
    /\ UNCHANGED <<variant, maskVars, indexVars, pipeVars, areaVars, loopVars,
                   api, tlen, xlen, cloudy, sagg, parts, final, report>>

NumTiles == (Width + xlen - 1) \div xlen
TilePixels(j) == {p \in Pixels : ((p[1] - 1) \div xlen) + 1 = j}
TileOf(p) == ((p[1] - 1) \div xlen) + 1

\* max_values = masked.resample(time="1MS").max(): the lazy statistic of the
\* whole stack; the chunk graph starts with no chunk processed
ResampleStack ==
    /\ pc = "resample"
    /\ sagg' = [p \in Pixels |-> resample(variant, smasked[p], "1MS")]
    /\ parts' = [j \in 1 .. NumTiles |-> <<>>]
    /\ pc' = "compute"
    /\ UNCHANGED <<variant, maskVars, indexVars, pipeVars, areaVars, loopVars,
                   api, tlen, xlen, cloudy, stack, smasked, final, report>>

NumScenes     == Len(catalog)
NumTimeChunks == (NumScenes + tlen - 1) \div tlen

\* chunk bounds that overlap: each chunk starts on the last scene of the
\* one before it
chunk_bounds_overlapping(k) ==
    [lo |-> IF k = 1 THEN 1 ELSE (k - 1) * tlen,
     hi |-> IF k * tlen < NumScenes THEN k * tlen ELSE NumScenes]

\* chunk bounds that stop after the first scene of the chunk
chunk_bounds_short(k) ==
    [lo |-> (k - 1) * tlen + 1, hi |-> (k - 1) * tlen + 1]

\* the scenes of time chunk k under chunks={"time": tlen}
chunk_bounds(k) ==
    [lo |-> (k - 1) * tlen + 1,
     hi |-> IF k * tlen < NumScenes THEN k * tlen ELSE NumScenes]

\* the block of the loaded stack that chunk <<k, j>> reads
chunk_of(raw, k, j) ==
    [p \in TilePixels(j) |->
        [dtype  |-> raw[p].dtype,
         scenes |-> SubSeq(raw[p].scenes, chunk_bounds(k).lo, chunk_bounds(k).hi)]]

\* the mask and the index evaluated on one block
process_chunk(v, block, nd) ==
    [p \in DOMAIN block |-> with_index(v, apply_mask(v, block[p], nd))]

\* the time chunks of tile j that have been processed
Arrived(j) == DOMAIN parts[j]

\* one task of the graph: load, mask and index one chunk
ProcessChunk ==
    /\ pc = "compute"
    /\ \E j \in 1 .. NumTiles : \E k \in (1 .. NumTimeChunks) \ Arrived(j) :
          parts' = [parts EXCEPT ![j] =
                      @ @@ (k :> process_chunk(variant,
                                    chunk_of(RawStack(variant, catalog, cloudy), k, j),
                                    qnodata))]
    /\ UNCHANGED <<pc, variant, maskVars, indexVars, pipeVars, areaVars, loopVars,
                   api, tlen, xlen, cloudy, stack, smasked, sagg, final, report>>

\* the groups of resample(time="1MS"): every month from the first scene's to
\* the last scene's
Bins == BinOf("1MS", catalog[1].time) .. BinOf("1MS", catalog[NumScenes].time)

\* the time chunks that hold a scene of group g
ChunksOf(g) ==
    {k \in 1 .. NumTimeChunks :
        \E i \in chunk_bounds(k).lo .. chunk_bounds(k).hi :
            BinOf("1MS", catalog[i].time) = g}

\* a barrier on the whole dataset: every chunk of every tile has been processed
DatasetReady(g) ==
    \A j \in 1 .. NumTiles : Arrived(j) = 1 .. NumTimeChunks

\* the barrier of group g: its own chunks have been processed in every tile
GroupReady(g) ==
    \A j \in 1 .. NumTiles : ChunksOf(g) \subseteq Arrived(j)

\* the index values of pixel p in group g that the processed chunks k,
\* k + 1, ... of its tile hold, in time order
RECURSIVE Gathered(_, _, _)
Gathered(k, p, g) ==
    IF k > NumTimeChunks THEN <<>>
    ELSE (IF k \in Arrived(TileOf(p))
          THEN GroupValues(parts[TileOf(p)][k][p].scenes, "1MS", g, "evi")
          ELSE <<>>)
            \o Gathered(k + 1, p, g)

\* the reduction task of group g
FinaliseGroup(g) ==
    /\ pc = "compute"
    /\ g \notin DOMAIN final
    /\ GroupReady(g)
    /\ final' = final @@ (g :> [p \in Pixels |->
                    statistic(variant, Gathered(1, p, g))])
    /\ UNCHANGED <<pc, variant, maskVars, indexVars, pipeVars, areaVars, loopVars,
                   api, tlen, xlen, cloudy, stack, smasked, sagg, parts, report>>

\* max_evi2 = max_values.evi2.compute() returns once every group is reduced
ComputeReturns ==
    /\ pc = "compute"
    /\ DOMAIN final = Bins
    /\ pc' = "mean"
    /\ UNCHANGED <<variant, maskVars, indexVars, pipeVars, areaVars, loopVars, stackVars>>

\* max_evi2.mean(["x", "y"])
MeanStack ==
    /\ pc = "mean"
    /\ report' = [g \in Bins |-> mean_xy(final[g])]
    /\ pc' = "done"
    /\ UNCHANGED <<variant, maskVars, indexVars, pipeVars, areaVars, loopVars,
                   api, tlen, xlen, cloudy, stack, smasked, sagg, parts, final>>

NextStack ==
    \/ MaskStack \/ IndexStack \/ ResampleStack \/ ProcessChunk
    \/ (\E g \in Bins : FinaliseGroup(g))
    \/ ComputeReturns \/ MeanStack

SpecStack == InitStack /\ [][NextStack]_vars

\* the stack as it was loaded
Loaded == RawStack(variant, catalog, cloudy)

\* the stages after which the masked stack carries the index
Indexed == {"resample", "compute", "mean", "done"}

\* every pixel/time of the loaded stack has red = 1000, nir = 3000 and a
\* clear quality code (no reject bit, not the sentinel)
ReferenceStack ==
    \A p \in Pixels : \A i \in DOMAIN Loaded[p].scenes :
        LET sc == Loaded[p].scenes[i]
        IN  /\ sc.red = IntVal(1000) /\ sc.nir = IntVal(3000)
            /\ ~MaskIsTrue(variant, sc.qa.n, qnodata)

OneMonth == \A i \in DOMAIN catalog : SameMonth(catalog[i].time, catalog[1].time)

\* C11: on a stack of three time steps with red = 1000 and nir = 3000
\* everywhere and every quality code clear, the two-band HLS index is
\* 12/35 = 2.4*(0.3-0.1)/(0.3+0.1+1) at every pixel and time; when the three
\* time steps fall in one month, the monthly maximum is 12/35 at every pixel.
C11_ReferenceScenario ==
    (variant = "hls_evi2" /\ NumScenes = 3 /\ ReferenceStack) =>
        /\ pc \in Indexed =>
              \A p \in Pixels : \A i \in 1 .. NumScenes :
                  smasked[p].scenes[i].evi = Num(12, 35)
        /\ (pc \in {"compute", "mean", "done"} /\ OneMonth) =>
              \A p \in Pixels :
                  /\ Len(sagg[p]) = 1
                  /\ sagg[p][1].time = MonthStart(MonthIndex(catalog[1].time))
                  /\ sagg[p][1].evi = Num(12, 35)

\* the reference stack with its three scenes in June 2022 went through the
\* pipeline: the index and the monthly maximum are 12/35 everywhere
C11_Witness ==
    /\ pc = "done" /\ variant = "hls_evi2" /\ api = "xarray"
    /\ NumScenes = 3 /\ ReferenceStack /\ OneMonth
    /\ \A p \in Pixels : \A i \in 1 .. 3 : smasked[p].scenes[i].evi = Num(12, 35)
    /\ \A p \in Pixels : sagg[p] # <<>> /\ sagg[p][1].evi = Num(12, 35)
    /\ \A g \in Bins : report[g] = Num(12, 35)

\* the stages after the masking cell
Masked == {"index", "resample", "compute", "mean", "done"}

\* the masked stack has the pixels, the number of scenes and the times of
\* the loaded stack
SameShapeAndCoordinates ==
    /\ DOMAIN smasked = DOMAIN Loaded
    /\ \A p \in Pixels :
          /\ Len(smasked[p].scenes) = Len(Loaded[p].scenes)
          /\ \A i \in DOMAIN Loaded[p].scenes :
                smasked[p].scenes[i].time = Loaded[p].scenes[i].time

GroupIndex(g) == g - BinOf("1MS", catalog[1].time) + 1

\* the index of group g in the statistic of the whole stack, per pixel
WholeGroup(g) == [p \in Pixels |-> sagg[p][GroupIndex(g)].evi]

Holder(i) == ((i - 1) \div tlen) + 1

\* the scenes that fall into group g
GroupScenes(g) == {i \in 1 .. NumScenes : BinOf("1MS", catalog[i].time) = g}

\* every chunk that holds a scene of group g has been processed, in every tile
Contributed(g) ==
    \A j \in 1 .. NumTiles : \A i \in GroupScenes(g) : Holder(i) \in DOMAIN parts[j]

\* C18: a group is reduced only after every time chunk that holds one of its
\* scenes has been processed, and as soon as those chunks have been processed
\* its reduction can run, whatever the state of the chunks of other groups.
C18_PerGroupBarrier ==
    /\ pc \in {"compute", "mean", "done"} =>
          \A g \in DOMAIN final : Contributed(g)
    /\ pc = "compute" =>
          \A g \in Bins \ DOMAIN final :
              Contributed(g) => ENABLED FinaliseGroup(g)

\* a group has been reduced while a chunk of another group is still to be
\* processed
C18_Witness ==
    /\ pc = "compute"
    /\ \E g \in DOMAIN final : \E h \in Bins \ DOMAIN final :
          /\ GroupScenes(g) # {} /\ GroupScenes(h) # {}
          /\ IsNum(final[g][<<1, 1>>])
          /\ ~Contributed(h)

\* the scenes that time chunk k holds
HeldBy(k) == {i \in 1 .. NumScenes : Holder(i) = k}

\* the tile that holds pixel column x
TileOfColumn(x) == ((x - 1) \div xlen) + 1

\* C19: for every split of the stack along time and space, the mask and the
\* index evaluated on one chunk are, element by element, those evaluated on
\* the whole stack: a processed chunk holds exactly its tile's pixels and its
\* scenes, each with the masked bands and the index of the whole-stack
\* result, so the chunks put side by side are the whole-stack result.
C19_ChunkwiseMaskAndIndex ==
    pc \in {"compute", "mean", "done"} =>
        /\ \A j \in 1 .. NumTiles : \A k \in DOMAIN parts[j] :
              /\ DOMAIN parts[j][k] = {p \in Pixels : TileOfColumn(p[1]) = j}
              /\ \A p \in DOMAIN parts[j][k] :
                    /\ parts[j][k][p].dtype = smasked[p].dtype
                    /\ Len(parts[j][k][p].scenes) = Cardinality(HeldBy(k))
                    /\ \A i \in HeldBy(k) :
                          parts[j][k][p].scenes[i - (k - 1) * tlen]
                              = smasked[p].scenes[i]
        /\ \A p \in Pixels : \A i \in 1 .. NumScenes :
              /\ TileOfColumn(p[1]) \in 1 .. NumTiles
              /\ Holder(i) \in 1 .. NumTimeChunks

\* a stack split along time and space has been processed chunk by chunk: the
\* chunk of the cloudy cell is blank there and the chunk of another pixel at
\* the same time carries the index
C19_Witness ==
    /\ pc = "compute" /\ tlen = 1 /\ NumTiles = 2 /\ cloudy = << <<1, 1>>, 1 >>
    /\ \A j \in 1 .. NumTiles : DOMAIN parts[j] = 1 .. NumTimeChunks
    /\ IsNaN(parts[1][1][<<1, 1>>].scenes[1].evi)
    /\ IsNaN(smasked[<<1, 1>>].scenes[1].evi)
    /\ IsNum(parts[2][1][<<Width, Height>>].scenes[1].evi)

(***************************************************************************)
(* The year loop of the eo-insights notebook: one RasterBase per year,     *)
(* collected in hls_trend_raster                                           *)
(***************************************************************************)
\* year_range = range(2014, 2025), cut to NumYears years
loop_first_year == 2014
loop_year_range == loop_first_year .. (loop_first_year + NumYears - 1)

\* start_date=f"{year}-02-01", end_date=f"{year}-04-30"
loop_window(y) == [start |-> Date(y, 2, 1), end |-> Date(y, 4, 30)]

\* per year the first and the last day of the window and the day after it
LoopDates ==
    UNION {{Date(y, 2, 1), Date(y, 4, 30), Date(y, 5, 1)} : y \in loop_year_range}

\* the scenes of the catalogue inside the window of year y, in time order
InYear(cat, y) == SelectSeq(cat, LAMBDA s : InWindow(s.time, loop_window(y)))

\* RasterBase.from_stac_query(...): the bands in one xarray (data) and the
\* quality band in another (masks), on the time axis of the scenes found
from_stac_query(cat, y) ==
    LET sc == InYear(cat, y)
    IN  [none  |-> FALSE,
         data  |-> [i \in DOMAIN sc |->
                      [f \in {"time"} \cup SpectralBands |-> sc[i][f]]],
         masks |-> [i \in DOMAIN sc |-> [time |-> sc[i].time, fmask |-> sc[i].qa]]]

\* a concatenation that puts the new year in front
concat_newest_first(a, b) == b \o a

\* xr.concat([a, b], dim="time")
xr_concat(a, b) == a \o b

InitLoop ==
    /\ pc = "loop"
    /\ variant = "hls_evi2"
    /\ qnodata = 0
    /\ IsCatalogue(catalog, variant, LoopDates, TrendContents)
    /\ \A y \in loop_year_range : InYear(catalog, y) # <<>>
    /\ year = loop_first_year
    /\ items = <<>>
    /\ data = EmptyDataset /\ masked = EmptyDataset
    /\ resampled = <<>> /\ selected = <<>>
    /\ hls_trend_raster = None /\ hls_year_raster = None
    /\ NoMask /\ NoIndex /\ NoArea /\ NoStack

\* one iteration of "for year in year_range": load the year, then keep it
\* as hls_trend_raster or concatenate its data and its masks to it
LoadYear ==
    /\ pc = "loop"
    /\ year \in loop_year_range
    /\ hls_year_raster' = from_stac_query(catalog, year)
    /\ hls_trend_raster' =
          IF hls_trend_raster = None
          THEN hls_year_raster'
          ELSE [hls_trend_raster EXCEPT
                  !.data  = xr_concat(hls_trend_raster.data, hls_year_raster'.data),
                  !.masks = xr_concat(hls_trend_raster.masks, hls_year_raster'.masks)]
    /\ year' = year + 1
    /\ pc' = IF year + 1 \in loop_year_range THEN "loop" ELSE "looped"
    /\ UNCHANGED <<variant, maskVars, indexVars, areaVars, stackVars,
                   catalog, items, data, masked, resampled, selected>>

NextLoop == LoadYear
SpecLoop == InitLoop /\ [][NextLoop]_vars

\* the time axis of an xarray of the raster
TimeAxis(xs) == [i \in DOMAIN xs |-> xs[i].time]

\* the years the loop has been through
YearsLoaded == loop_first_year .. (year - 1)

\* C29: after every iteration of the loop hls_trend_raster.data and
\* hls_trend_raster.masks have the same time axis; the axis holds the years
\* loaded so far one after the other in ascending order, each year with the
\* time axis from_stac_query returned for it, and every scene of a loaded
\* year is on it exactly once.
C29_YearlyAccumulation ==
    (pc \in {"loop", "looped"} /\ YearsLoaded # {}) =>
        LET axis == TimeAxis(hls_trend_raster.data)
        IN  /\ hls_trend_raster # None
            /\ TimeAxis(hls_trend_raster.masks) = axis
            /\ \A i, j \in DOMAIN axis : i < j => DateLess(axis[i], axis[j])
            /\ \A y \in YearsLoaded :
                  SelectSeq(axis, LAMBDA t : t.y = y) = TimeAxis(InYear(catalog, y))
            /\ \A i \in DOMAIN catalog :
                  Cardinality({j \in DOMAIN axis : axis[j] = catalog[i].time})
                    = IF \E y \in YearsLoaded : InWindow(catalog[i].time, loop_window(y))
                      THEN 1 ELSE 0

\* the loop is through: two years on the axis, the later year with two scenes
C29_Witness ==
    /\ pc = "looped"
    /\ Len(hls_trend_raster.data) = 3
    /\ Len(hls_trend_raster.masks) = 3
    /\ hls_trend_raster.data[1].time.y = loop_first_year
    /\ hls_trend_raster.data[2].time.y = loop_first_year + 1
    /\ hls_year_raster.data = SubSeq(hls_trend_raster.data, 2, 3)

====
